---- MODULE Spec2Model ----
(***************************************************************************)
(* Model of the useRoommates hook and of the AddEventForm component        *)
(* (src/src/hooks/useRoommates.tsx).                                       *)
(*                                                                         *)
(* The backend relations `roommates` and `profiles`, the hook's React      *)
(* state (roommates, loading), the logged-in user and the asynchronous     *)
(* invocations of the hook's operations are the state.  Every operation is *)
(* cut at its awaits: the synchronous code up to an await is one action,   *)
(* and the arrival of each backend reply together with the code that runs  *)
(* up to the next await is one action.                                     *)
(*                                                                         *)
(* Emails are sequences of one-character strings so that the regular       *)
(* expression test and toLowerCase() are computed, not assumed.            *)
(* The display fields of a roommate row (name, upi_id, phone) are carried  *)
(* by no decision of the code and are left out of the rows.                *)
(***************************************************************************)
EXTENDS Integers, Sequences, FiniteSets, TLC

VARIABLES
    user,       \* useAuth().user of the current render: an Accounts id or None
    roommates,  \* useState<Roommate[]>: the in-memory list
    loading,    \* useState(true): the loading flag
    rows,       \* the backend relation `roommates`
    nextId,     \* the id the backend gives the next inserted row
    calls,      \* how many operations callers have invoked
    inv,        \* the invocations of the hook's operations, one per slot
    form        \* the AddEventForm component: props, field values, submission

vars == <<user, roommates, loading, rows, nextId, calls, inv, form>>

----------------------------------------------------------------------------
(* Bounds *)

\* The number of operations callers invoke in one behaviour when the
\* invocations may overlap.
MaxCalls == 2

\* The number of operations callers invoke in one behaviour when no two
\* invocations overlap.
MaxSeqCalls == 3

\* The invocations that may be in flight at once.
Slots == {"p", "q"}
SlotOrder == <<"p", "q">>

----------------------------------------------------------------------------
(* Emails *)

e_a  == <<"a", "@", "x", ".", "y">>
e_A  == <<"A", "@", "x", ".", "y">>
e_b  == <<"b", "@", "x", ".", "y">>
e_B  == <<"B", "@", "x", ".", "y">>
e_c  == <<"c", "@", "x", ".", "y">>
e_d  == <<"d", "@", "x", ".", "y">>
e_noAt    == <<"a", "b">>
e_noDot   == <<"a", "@", "x">>
e_space   == <<"a", " ", "@", "x", ".", "y">>
e_dotHead == <<"a", "@", ".", "y">>
e_twoAt   == <<"a", "@", "@", "x", ".", "y">>

\* The strings a caller passes to addRoommate.
EmailInputs ==
    {e_a, e_A, e_b, e_B, e_c, e_d, e_noAt, e_noDot, e_space, e_dotHead, e_twoAt}

\* \s of the regular expression, on the characters used here.
Whitespace == {" "}

\* [^\s@]
NotSpaceAt(c) == c \notin Whitespace /\ c # "@"

\* [^\s@]+ on e[from..to]
AllNotSpaceAt(e, from, to) ==
    /\ from <= to
    /\ \A k \in from..to : NotSpaceAt(e[k])

\* /^[^\s@]+@[^\s@]+\.[^\s@]+$/.test(email)
EmailRegexTest(e) ==
    \E i \in 1..Len(e) : \E j \in 1..Len(e) :
        /\ e[i] = "@"
        /\ e[j] = "."
        /\ i < j
        /\ AllNotSpaceAt(e, 1, i - 1)
        /\ AllNotSpaceAt(e, i + 1, j - 1)
        /\ AllNotSpaceAt(e, j + 1, Len(e))

\* String.prototype.toLowerCase on one character
LowerChar(c) ==
    CASE c = "A" -> "a"
      [] c = "B" -> "b"
      [] OTHER   -> c

\* String.prototype.toLowerCase
ToLowerCase(e) == [k \in 1..Len(e) |-> LowerChar(e[k])]

----------------------------------------------------------------------------
(* Accounts and profiles (read-only for the hook) *)

None == "none"

\* The authenticated users: user.id and user.email.  The code lower-cases
\* user.email before comparing it (line 84), so it may hold capitals.
Accounts == {
    [id |-> "uA", email |-> e_a],
    [id |-> "uB", email |-> e_B] }

AccountIds == {a.id : a \in Accounts}

AccountOf(uid) == CHOOSE a \in Accounts : a.id = uid

\* The relation `profiles`: id and email.  Lookups are by the lower-cased
\* email (line 99).  Two profiles share d@x.y, the case maybeSingle()
\* answers with the error PGRST116.
Profiles == {
    [id |-> "uA",  email |-> e_a],
    [id |-> "uB",  email |-> e_b],
    [id |-> "uD1", email |-> e_d],
    [id |-> "uD2", email |-> e_d] }


ProfileOf(pid) == CHOOSE p \in Profiles : p.id = pid

----------------------------------------------------------------------------
(* Notifications: toast({title, description, variant}) *)

Toast(t, d, v) == [title |-> t, description |-> d, variant |-> v]

ToastFetchFailed   == Toast("Error", "Failed to fetch roommates", "destructive")
ToastAddNoUser     == Toast("Error", "You must be logged in to add roommates", "destructive")
ToastInvalidEmail  == Toast("Invalid Email", "Please enter a valid email address", "destructive")
ToastSelf          == Toast("Error", "You cannot add yourself as a roommate", "destructive")
ToastDatabaseError == Toast("Database Error", "Failed to verify user. Please try again.", "destructive")
ToastUserNotFound  == Toast("User Not Found", "No AirMates account found", "destructive")
ToastAlreadyAdded  == Toast("Already Added", "This roommate has already been added to your list.", "destructive")
ToastAddSuccess    == Toast("Success!", "Roommate has been added successfully!", "default")
ToastAdditionFailed == Toast("Addition Failed", "Could not add roommate", "destructive")
ToastRemoved       == Toast("Roommate Removed", "Roommate has been removed from your group", "default")
ToastDeleteFailed  == Toast("Error", "Failed to delete roommate", "destructive")
ToastAllNoUser     == Toast("Error", "You must be logged in to perform this action.", "destructive")
ToastAllRemoved    == Toast("All Roommates Removed", "All roommates you added have been removed.", "default")
ToastDeleteAllFailed == Toast("Error", "Failed to remove all roommates", "destructive")
ToastRequestSent   == Toast("Request Sent!", "Payment request email sent", "default")
ToastSendFailed    == Toast("Failed to Send Request", "Failed to send email", "destructive")

----------------------------------------------------------------------------
(* The backend *)

\* What a backend call comes back with: an answer, or a backend error.
Net == {"ok", "err"}

NoError == "null"

\* A roommate row.  created_at follows the order of the ids.
Row(i, owner, mail) == [id |-> i, user_id |-> owner, email |-> mail, balance |-> 0]

\* .maybeSingle(): no row is data null, one row is that row, several rows
\* are the error PGRST116.  data is the empty set for null.
MaybeSingle(matches) ==
    IF Cardinality(matches) > 1
    THEN [data |-> {}, error |-> "PGRST116"]
    ELSE [data |-> matches, error |-> NoError]

\* The result of a read under `net`.
ReadResult(net, matches) ==
    IF net = "err" THEN [data |-> {}, error |-> "500"] ELSE MaybeSingle(matches)

\* from('profiles').select(...).eq('email', email.toLowerCase())
ProfileQuery(email) == {p \in Profiles : p.email = ToLowerCase(email)}

\* from('roommates').select('id').eq('user_id', user.id).eq('email', email.toLowerCase())
DuplicateQuery(table, uid, email) ==
    {r \in table : r.user_id = uid /\ r.email = ToLowerCase(email)}

\* Insert under a uniqueness constraint on (user_id, email).
InsertUnique(table, row) ==
    IF \E r \in table : r.user_id = row.user_id /\ r.email = row.email
    THEN table
    ELSE table \cup {row}

\* from('roommates').insert([...])
Insert(table, row) == table \cup {row}

\* from('roommates').delete().eq('id', roommateId)
DeleteById(table, rid) == {r \in table : r.id # rid}

\* A delete that also removes the rows other users hold about uid.
DeleteByOwnerAndAbout(table, uid) ==
    {r \in table : r.user_id # uid /\ r.email # AccountOf(uid).email}

\* from('roommates').delete().eq('user_id', user.id)
DeleteByOwner(table, uid) == {r \in table : r.user_id # uid}

\* The row written for the current user: the target's profile data.
InitiatorRow(i, uid, targetId) == Row(i, uid, ProfileOf(targetId).email)

\* A reciprocal row written under the current user instead of the target.
ReciprocalRowOwnSide(i, uid, targetId) == Row(i, uid, AccountOf(uid).email)

\* The reciprocal row written for the target: email: user.email || ''.
ReciprocalRow(i, uid, targetId) == Row(i, targetId, AccountOf(uid).email)

RECURSIVE OrderDesc(_)
\* .order('created_at', { ascending: false })
OrderDesc(S) ==
    IF S = {} THEN <<>>
    ELSE LET top == CHOOSE r \in S : \A o \in S : o.id <= r.id
         IN  <<top>> \o OrderDesc(S \ {top})

\* from('roommates').select('*').order('created_at', ...): the code sets no filter.
SelectAll(table) == OrderDesc(table)

----------------------------------------------------------------------------
(* Invocations *)

\* One backend request of an invocation: which, whether it came back
\* without error, and the ids of the rows it created or removed.
Entry(q, good, touched) == [req |-> q, ok |-> good, ids |-> touched]

\* An invocation: the operation, its position, the `user` its closure
\* captured, its arguments, the target profile found, the requests it has
\* had answered and the notifications it has shown.
Idle == [op |-> "none", pc |-> "idle", user |-> None, email |-> <<>>, id |-> 0,
         target |-> None, log |-> <<>>, toasts |-> <<>>]

Call(o, u, mail, rid) == [Idle EXCEPT !.op = o, !.user = u, !.email = mail, !.id = rid]

Free(s) == inv[s].pc \in {"idle", "done"}
Quiet == \A s \in Slots : Free(s)

\* The invocation of slot s becomes r.  An invocation that had returned is
\* gone: its slot is idle again as soon as anything else happens.
Put(s, r) ==
    [t \in Slots |-> IF t = s THEN r
                     ELSE IF inv[t].pc = "done" THEN Idle ELSE inv[t]]

At(r, where) == [r EXCEPT !.pc = where]
Logged(r, e) == [r EXCEPT !.log = Append(@, e)]
Shown(r, t) == [r EXCEPT !.toasts = Append(@, t)]
Done(r) == At(r, "done")

\* The ids rows can have: an invocation creates at most two rows.
MostCalls == IF MaxCalls > MaxSeqCalls THEN MaxCalls ELSE MaxSeqCalls
Ids == 1..(2 * MostCalls)

\* A caller invokes one more operation.
Invoke == calls' = calls + 1 /\ UNCHANGED form

\* The slot a new invocation takes: the first free one.
Vacant(s) ==
    /\ Free(s)
    /\ \A i \in 1..Len(SlotOrder) : \A j \in 1..Len(SlotOrder) :
          (i < j /\ SlotOrder[j] = s) => ~Free(SlotOrder[i])

TypeOK ==
    /\ user \in AccountIds \cup {None}
    /\ loading \in BOOLEAN
    /\ nextId \in 1..(2 * MostCalls + 1)
    /\ calls \in 0..MostCalls
    /\ \A r \in rows : r.id \in Ids /\ r.user_id \in {p.id : p \in Profiles}
    /\ \A s \in Slots :
        inv[s].pc \in {"idle", "done", "profile", "dup", "current", "insert1",
                       "insert2", "fetch", "delete", "deleteAll", "send"}
    /\ form.isOpen \in BOOLEAN
    /\ form.submit.pc \in {"idle", "wait", "done"}
    /\ form.submit.user \in AccountIds \cup {None}

----------------------------------------------------------------------------
(* AddEventForm: dates, field values, props *)

Null == "null"

DigitChar == <<"0", "1", "2", "3", "4", "5", "6", "7", "8", "9">>
DigitOf(c) == CHOOSE k \in 0..9 : DigitChar[k + 1] = c

\* A number written with two digits, and with four.
Digit(n) == DigitChar[(n % 10) + 1]
Pad2(n) == <<Digit(n \div 10), Digit(n)>>
Pad4(n) == <<Digit(n \div 1000), Digit(n \div 100)>> \o Pad2(n)

\* format(date, 'yyyy-MM-dd') of date-fns: the local calendar day of a Date.
FormatDate(date) == Pad4(date.y) \o <<"-">> \o Pad2(date.m) \o <<"-">> \o Pad2(date.d)

IsLeap(y) == (y % 4 = 0 /\ y % 100 # 0) \/ y % 400 = 0
DaysIn(y, m) ==
    IF m = 2 THEN (IF IsLeap(y) THEN 29 ELSE 28)
    ELSE IF m \in {4, 6, 9, 11} THEN 30 ELSE 31
PrevDay(date) ==
    IF date.d > 1 THEN [date EXCEPT !.d = date.d - 1]
    ELSE IF date.m > 1 THEN [y |-> date.y, m |-> date.m - 1, d |-> DaysIn(date.y, date.m - 1)]
    ELSE [y |-> date.y - 1, m |-> 12, d |-> 31]

\* new Date('yyyy-MM-dd'): midnight UTC of that day, which is the day before
\* on the local calendar of a browser west of Greenwich.
NewDate(str, west) ==
    LET day == [y |-> 1000 * DigitOf(str[1]) + 100 * DigitOf(str[2])
                      + 10 * DigitOf(str[3]) + DigitOf(str[4]),
                m |-> 10 * DigitOf(str[6]) + DigitOf(str[7]),
                d |-> 10 * DigitOf(str[9]) + DigitOf(str[10])]
    IN  IF west THEN PrevDay(day) ELSE day

\* The days the calendar, `selectedDate` and `new Date()` give.
Dates == {[y |-> 2024, m |-> 3, d |-> 1], [y |-> 2025, m |-> 12, d |-> 31]}

\* No selectedDate, and no eventToEdit.
NoDate == [y |-> 0, m |-> 0, d |-> 0]
NoEvent == [id |-> None]

\* The events the parent passes as eventToEdit.
Events ==
    {[id |-> "ev1", name |-> "Rent", event_date |-> FormatDate([y |-> 2024, m |-> 3, d |-> 1]),
      notes |-> "due", event_type |-> "Bills", created_by |-> "uA"],
     [id |-> "ev2", name |-> "Party", event_date |-> FormatDate([y |-> 2025, m |-> 1, d |-> 1]),
      notes |-> Null, event_type |-> "General", created_by |-> "uB"]}

\* What the user can put in the fields.
NameInputs == {"", "Rent"}
NotesInputs == {"", "due"}
TypeInputs == {"General", "Bills"}

\* eventSchema: name and event_type of at least one character, notes a
\* string if there are any.
EventSchemaOk(values) ==
    /\ values.name # ""
    /\ values.event_type # ""
    /\ values.notes # Null

\* form.reset(...) of the effect that runs when the dialog opens.
ResetValues(edit, selectedDate, now, west) ==
    IF edit # NoEvent
    THEN [name |-> edit.name, event_date |-> NewDate(edit.event_date, west),
          notes |-> edit.notes, event_type |-> edit.event_type]
    ELSE [name |-> "", event_date |-> IF selectedDate # NoDate THEN selectedDate ELSE now,
          notes |-> "", event_type |-> "General"]

\* values.notes || null
NotesOrNull(notes) == IF notes = "" \/ notes = Null THEN Null ELSE notes

\* The argument of updateEvent and the argument of addEvent.
UpdatePayload(edit, values) ==
    [id |-> edit.id, name |-> values.name, event_date |-> FormatDate(values.event_date),
     notes |-> NotesOrNull(values.notes), event_type |-> values.event_type]
AddPayload(u, values) ==
    [name |-> values.name, event_date |-> FormatDate(values.event_date),
     notes |-> NotesOrNull(values.notes), event_type |-> values.event_type,
     created_by |-> u]

ToastEventUpdated == "Event updated successfully."
ToastEventAdded == "Event added successfully."
ToastEventFailed == "Failed to save event. Please try again."

\* No submission yet.
NoSubmit == [pc |-> "idle", user |-> None, log |-> <<>>, toasts |-> <<>>, closed |-> FALSE]

\* The component before the dialog is opened.
FormClosed ==
    [isOpen |-> FALSE, eventToEdit |-> NoEvent,
     values |-> [name |-> "", event_date |-> CHOOSE date \in Dates : TRUE,
                 notes |-> "", event_type |-> "General"],
     submit |-> NoSubmit]

\* After mounting with nobody logged in: the effect has cleared the state.
Init ==
    /\ user = None
    /\ roommates = <<>>
    /\ loading = FALSE
    /\ rows = {}
    /\ nextId = 1
    /\ calls = 0
    /\ inv = [s \in Slots |-> Idle]
    /\ form = FormClosed

----------------------------------------------------------------------------
(* fetchRoommates *)

\* What runs after `await fetchRoommates()` returns in each operation.
AfterFetch(r) ==
    CASE r.op = "add"       -> Done(Shown(r, ToastAddSuccess))
      [] r.op = "delete"    -> Done(Shown(r, ToastRemoved))
      [] r.op = "deleteAll" -> Done(Shown(r, ToastAllRemoved))
      [] OTHER              -> Done(r)

\* CallFetch without the test of the user: the read is always issued.
CallFetchUnchecked(s, r) ==
    /\ loading' = TRUE
    /\ inv' = Put(s, At(r, "fetch"))

\* The call of fetchRoommates up to its await, by invocation r in slot s.
CallFetch(s, r) ==
    IF r.user = None
    THEN /\ loading' = FALSE
         /\ inv' = Put(s, AfterFetch(r))
    ELSE /\ loading' = TRUE
         /\ inv' = Put(s, At(r, "fetch"))

\* The hook's `refetch`
FetchRoommates(s) ==
    /\ Vacant(s)
    /\ Invoke
    /\ CallFetch(s, Call("fetch", user, <<>>, 0))
    /\ UNCHANGED <<user, roommates, rows, nextId>>

\* FetchReply showing nothing when the read fails.
FetchReplySilent(s, net) ==
    /\ inv[s].pc = "fetch"
    /\ LET r == Logged(inv[s], Entry("select", net = "ok", {}))
       IN  /\ roommates' = IF net = "ok" THEN SelectAll(rows) ELSE roommates
           /\ inv' = Put(s, AfterFetch(r))
    /\ loading' = FALSE
    /\ UNCHANGED <<user, rows, nextId>>
    /\ UNCHANGED <<calls, form>>

\* FetchReply with setLoading(false) on the path of success only.
FetchReplyNoFinally(s, net) ==
    /\ inv[s].pc = "fetch"
    /\ LET r == Logged(inv[s], Entry("select", net = "ok", {}))
       IN  IF net = "ok"
           THEN /\ roommates' = SelectAll(rows)
                /\ inv' = Put(s, AfterFetch(r))
                /\ loading' = FALSE
           ELSE /\ roommates' = roommates
                /\ inv' = Put(s, AfterFetch(Shown(r, ToastFetchFailed)))
                /\ loading' = loading
    /\ UNCHANGED <<user, rows, nextId>>
    /\ UNCHANGED <<calls, form>>

\* The read of fetchRoommates comes back.
FetchReply(s, net) ==
    /\ inv[s].pc = "fetch"
    /\ LET r == Logged(inv[s], Entry("select", net = "ok", {}))
       IN  IF net = "ok"
           THEN /\ roommates' = SelectAll(rows)
                /\ inv' = Put(s, AfterFetch(r))
           ELSE /\ roommates' = roommates
                /\ inv' = Put(s, AfterFetch(Shown(r, ToastFetchFailed)))
    /\ loading' = FALSE
    /\ UNCHANGED <<user, rows, nextId>>
    /\ UNCHANGED <<calls, form>>

\* useEffect on [user]: a user appears or changes.
Login(s, u) ==
    /\ Vacant(s)
    /\ u # user
    /\ user' = u
    /\ CallFetch(s, Call("fetch", u, <<>>, 0))
    /\ UNCHANGED <<roommates, rows, nextId>>
    /\ UNCHANGED <<calls, form>>

\* useEffect on [user]: the user becomes null.
Logout ==
    /\ user # None
    /\ user' = None
    /\ roommates' = <<>>
    /\ loading' = FALSE
    /\ inv' = [t \in Slots |-> IF inv[t].pc = "done" THEN Idle ELSE inv[t]]
    /\ UNCHANGED <<rows, nextId>>
    /\ UNCHANGED <<calls, form>>

----------------------------------------------------------------------------
(* addRoommate *)

\* AddChecks without the test of the email's format.
AddChecksNoFormat(u, email) ==
    IF u = None THEN "nouser"
    ELSE IF ToLowerCase(email) = ToLowerCase(AccountOf(u).email) THEN "self"
    ELSE "lookup"

\* AddChecks comparing the email with the user's own as they are written.
AddChecksCaseSensitive(u, email) ==
    IF u = None THEN "nouser"
    ELSE IF ~EmailRegexTest(email) THEN "invalid"
    ELSE IF email = AccountOf(u).email THEN "self"
    ELSE "lookup"

\* The checks before the first request: logged in, well-formed, not oneself.
AddChecks(u, email) ==
    IF u = None THEN "nouser"
    ELSE IF ~EmailRegexTest(email) THEN "invalid"
    ELSE IF ToLowerCase(email) = ToLowerCase(AccountOf(u).email) THEN "self"
    ELSE "lookup"

\* ProfileVerdict taking a missing profile for a failed read.
ProfileVerdictMerged(res) ==
    IF (res.error # NoError /\ res.error # "PGRST116") \/ res.data = {} THEN "dberror"
    ELSE "found"

\* What the code makes of the profile read.
ProfileVerdict(res) ==
    IF res.error # NoError /\ res.error # "PGRST116" THEN "dberror"
    ELSE IF res.data = {} THEN "notfound"
    ELSE "found"

\* What the code makes of the duplicate read.
DuplicateVerdict(res) ==
    IF res.error # NoError THEN "throw"
    ELSE IF res.data # {} THEN "duplicate"
    ELSE "free"

\* addRoommate(email) up to its first await.
AddRoommate(s, email) ==
    /\ Vacant(s)
    /\ Invoke
    /\ LET r == Call("add", user, email, 0)
           v == AddChecks(user, email)
       IN  inv' = Put(s,
                CASE v = "nouser"  -> Done(Shown(r, ToastAddNoUser))
                  [] v = "invalid" -> Done(Shown(r, ToastInvalidEmail))
                  [] v = "self"    -> Done(Shown(r, ToastSelf))
                  [] OTHER         -> At(r, "profile"))
    /\ UNCHANGED <<user, roommates, loading, rows, nextId>>

\* STEP 1: the read of the target's profile comes back.
AddProfileReply(s, net) ==
    /\ inv[s].pc = "profile"
    /\ LET res == ReadResult(net, ProfileQuery(inv[s].email))
           v == ProfileVerdict(res)
           r == Logged(inv[s], Entry("profile", res.error = NoError, {}))
       IN  inv' = Put(s,
                CASE v = "dberror"  -> Done(Shown(r, ToastDatabaseError))
                  [] v = "notfound" -> Done(Shown(r, ToastUserNotFound))
                  [] OTHER -> At([r EXCEPT !.target = (CHOOSE p \in res.data : TRUE).id], "dup"))
    /\ UNCHANGED <<user, roommates, loading, rows, nextId>>
    /\ UNCHANGED <<calls, form>>

\* STEP 2: the duplicate read comes back.
AddDuplicateReply(s, net) ==
    /\ inv[s].pc = "dup"
    /\ LET res == ReadResult(net, DuplicateQuery(rows, inv[s].user, inv[s].email))
           v == DuplicateVerdict(res)
           r == Logged(inv[s], Entry("duplicate", res.error = NoError, {}))
       IN  inv' = Put(s,
                CASE v = "throw"     -> Done(Shown(r, ToastAdditionFailed))
                  [] v = "duplicate" -> Done(Shown(r, ToastAlreadyAdded))
                  [] OTHER           -> At(r, "current"))
    /\ UNCHANGED <<user, roommates, loading, rows, nextId>>
    /\ UNCHANGED <<calls, form>>

\* STEP 3: the read of the current user's profile comes back; its error is
\* logged to the console and the code continues.
AddCurrentProfileReply(s, net) ==
    /\ inv[s].pc = "current"
    /\ inv' = Put(s,
            At(Logged(inv[s], Entry("current", net = "ok", {})), "insert1"))
    /\ UNCHANGED <<user, roommates, loading, rows, nextId>>
    /\ UNCHANGED <<calls, form>>

\* AddInsertReply going on to the reciprocal insert when the insert failed.
AddInsertReplySwallow(s, net) ==
    /\ inv[s].pc = "insert1"
    /\ IF net = "ok"
       THEN /\ rows' = Insert(rows, InitiatorRow(nextId, inv[s].user, inv[s].target))
            /\ nextId' = nextId + 1
            /\ inv' = Put(s,
                    At(Logged(inv[s], Entry("insert1", TRUE, {nextId})), "insert2"))
       ELSE /\ UNCHANGED <<rows, nextId>>
            /\ inv' = Put(s,
                    At(Logged(inv[s], Entry("insert1", FALSE, {})), "insert2"))
    /\ UNCHANGED <<user, roommates, loading>>
    /\ UNCHANGED <<calls, form>>

\* Step 3a: the insert of the current user's row comes back.
AddInsertReply(s, net) ==
    /\ inv[s].pc = "insert1"
    /\ IF net = "ok"
       THEN /\ rows' = Insert(rows, InitiatorRow(nextId, inv[s].user, inv[s].target))
            /\ nextId' = nextId + 1
            /\ inv' = Put(s,
                    At(Logged(inv[s], Entry("insert1", TRUE, {nextId})), "insert2"))
       ELSE /\ UNCHANGED <<rows, nextId>>
            /\ inv' = Put(s,
                    Done(Shown(Logged(inv[s], Entry("insert1", FALSE, {})),
                               ToastAdditionFailed)))
    /\ UNCHANGED <<user, roommates, loading>>
    /\ UNCHANGED <<calls, form>>

\* AddReciprocalReply undoing the first insert when the reciprocal one fails.
AddReciprocalReplyRollback(s, net) ==
    /\ inv[s].pc = "insert2"
    /\ IF net = "ok"
       THEN /\ rows' = Insert(rows, ReciprocalRow(nextId, inv[s].user, inv[s].target))
            /\ nextId' = nextId + 1
            /\ CallFetch(s, Logged(inv[s], Entry("insert2", TRUE, {nextId})))
       ELSE /\ rows' = {r \in rows : \A k \in DOMAIN inv[s].log : r.id \notin inv[s].log[k].ids}
            /\ inv' = Put(s, Done(Shown(Logged(inv[s], Entry("insert2", FALSE, {})),
                                        ToastAdditionFailed)))
            /\ UNCHANGED <<nextId, loading>>
    /\ UNCHANGED <<user, roommates>>
    /\ UNCHANGED <<calls, form>>

\* Step 3b: the insert of the reciprocal row comes back; the list is refetched.
AddReciprocalReply(s, net) ==
    /\ inv[s].pc = "insert2"
    /\ IF net = "ok"
       THEN /\ rows' = Insert(rows, ReciprocalRow(nextId, inv[s].user, inv[s].target))
            /\ nextId' = nextId + 1
            /\ CallFetch(s, Logged(inv[s], Entry("insert2", TRUE, {nextId})))
       ELSE /\ UNCHANGED <<rows, nextId>>
            /\ CallFetch(s, Logged(inv[s], Entry("insert2", FALSE, {})))
    /\ UNCHANGED <<user, roommates>>
    /\ UNCHANGED <<calls, form>>

----------------------------------------------------------------------------
(* deleteRoommate, deleteAllMyRoommates, sendEmailRequest *)

\* The ids a caller passes to deleteRoommate: those of the rows there are,
\* and 0 for an id no row has.
RoommateIds == {r.id : r \in rows} \cup {0}

\* deleteRoommate(roommateId) up to its await: no check of the user.
DeleteRoommate(s, rid) ==
    /\ Vacant(s)
    /\ Invoke
    /\ inv' = Put(s, At(Call("delete", user, <<>>, rid), "delete"))
    /\ UNCHANGED <<user, roommates, loading, rows, nextId>>

\* The delete by id comes back.
DeleteReply(s, net) ==
    /\ inv[s].pc = "delete"
    /\ IF net = "ok"
       THEN /\ rows' = DeleteById(rows, inv[s].id)
            /\ CallFetch(s, Logged(inv[s],
                    Entry("delete", TRUE, {r.id : r \in rows \ DeleteById(rows, inv[s].id)})))
            /\ UNCHANGED roommates
       ELSE /\ inv' = Put(s,
                    Done(Shown(Logged(inv[s], Entry("delete", FALSE, {})), ToastDeleteFailed)))
            /\ UNCHANGED <<rows, roommates, loading>>
    /\ UNCHANGED <<user, nextId>>
    /\ UNCHANGED <<calls, form>>

\* deleteAllMyRoommates() up to its await.
DeleteAllMyRoommates(s) ==
    /\ Vacant(s)
    /\ Invoke
    /\ inv' = Put(s,
            IF user = None
            THEN Done(Shown(Call("deleteAll", user, <<>>, 0), ToastAllNoUser))
            ELSE At(Call("deleteAll", user, <<>>, 0), "deleteAll"))
    /\ UNCHANGED <<user, roommates, loading, rows, nextId>>

\* The delete by owner comes back.
DeleteAllReply(s, net) ==
    /\ inv[s].pc = "deleteAll"
    /\ IF net = "ok"
       THEN /\ rows' = DeleteByOwner(rows, inv[s].user)
            /\ CallFetch(s, Logged(inv[s],
                    Entry("deleteAll", TRUE, {r.id : r \in rows \ DeleteByOwner(rows, inv[s].user)})))
            /\ UNCHANGED roommates
       ELSE /\ inv' = Put(s,
                    Done(Shown(Logged(inv[s], Entry("deleteAll", FALSE, {})), ToastDeleteAllFailed)))
            /\ UNCHANGED <<rows, roommates, loading>>
    /\ UNCHANGED <<user, nextId>>
    /\ UNCHANGED <<calls, form>>

\* sendEmailRequest(roommate) up to its await, for a roommate of the list.
SendEmailRequest(s, k) ==
    /\ Vacant(s)
    /\ Invoke
    /\ k \in 1..Len(roommates)
    /\ inv' = Put(s, At(Call("send", user, roommates[k].email, roommates[k].id), "send"))
    /\ UNCHANGED <<user, roommates, loading, rows, nextId>>

\* SendReply invoking the function again when it returned an error.
SendReplyRetry(s, net) ==
    /\ inv[s].pc = "send"
    /\ inv' = Put(s,
            IF net = "ok"
            THEN Done(Shown(Logged(inv[s], Entry("send-email", TRUE, {})), ToastRequestSent))
            ELSE IF Len(inv[s].log) = 0
            THEN Logged(inv[s], Entry("send-email", FALSE, {}))
            ELSE Done(Shown(Logged(inv[s], Entry("send-email", FALSE, {})), ToastSendFailed)))
    /\ UNCHANGED <<user, roommates, loading, rows, nextId>>
    /\ UNCHANGED <<calls, form>>

\* functions.invoke('send-email') comes back.
SendReply(s, net) ==
    /\ inv[s].pc = "send"
    /\ inv' = Put(s,
            Done(Shown(Logged(inv[s], Entry("send-email", net = "ok", {})),
                       IF net = "ok" THEN ToastRequestSent ELSE ToastSendFailed)))
    /\ UNCHANGED <<user, roommates, loading, rows, nextId>>
    /\ UNCHANGED <<calls, form>>

----------------------------------------------------------------------------
(* AddEventForm: the dialog and its submission *)

\* useAuth() gives the component another user, or none.
AuthChange(u) ==
    /\ u # user
    /\ user' = u
    /\ UNCHANGED <<roommates, loading, rows, nextId, calls, inv, form>>

\* The parent opens the dialog, for a new event or for one to edit, and the
\* effect resets the fields.
OpenForm(edit, selectedDate, now, west) ==
    /\ ~form.isOpen
    /\ form' = [form EXCEPT !.isOpen = TRUE, !.eventToEdit = edit,
                            !.values = ResetValues(edit, selectedDate, now, west)]
    /\ UNCHANGED <<user, roommates, loading, rows, nextId, calls, inv>>

\* The user fills in the fields.
EditFields(name, date, notes, type) ==
    /\ form.isOpen
    /\ form' = [form EXCEPT !.values = [name |-> name, event_date |-> date,
                                        notes |-> notes, event_type |-> type]]
    /\ form'.values # form.values
    /\ UNCHANGED <<user, roommates, loading, rows, nextId, calls, inv>>

\* The Cancel button: onOpenChange(false).
CancelForm ==
    /\ form.isOpen
    /\ form' = [form EXCEPT !.isOpen = FALSE]
    /\ UNCHANGED <<user, roommates, loading, rows, nextId, calls, inv>>

\* form.handleSubmit(onSubmit), with valid fields and no submission pending:
\* onSubmit up to its await.
SubmitForm ==
    /\ form.isOpen
    /\ form.submit.pc # "wait"
    /\ EventSchemaOk(form.values)
    /\ form' = [form EXCEPT !.submit =
            IF user = None
            THEN [pc |-> "done", user |-> user, log |-> <<>>, toasts |-> <<>>, closed |-> FALSE]
            ELSE IF form.eventToEdit # NoEvent
            THEN [pc |-> "wait", user |-> user,
                  log |-> <<[fn |-> "updateEvent", answer |-> "pending",
                             arg |-> UpdatePayload(form.eventToEdit, form.values)]>>,
                  toasts |-> <<>>, closed |-> FALSE]
            ELSE [pc |-> "wait", user |-> user,
                  log |-> <<[fn |-> "addEvent", answer |-> "pending",
                             arg |-> AddPayload(user, form.values)]>>,
                  toasts |-> <<>>, closed |-> FALSE]]
    /\ UNCHANGED <<user, roommates, loading, rows, nextId, calls, inv>>

\* SubmitReply closing the dialog whether the call succeeded or not.
SubmitReplyAlwaysCloses(net) ==
    /\ form.submit.pc = "wait"
    /\ LET sub == form.submit
           answered == [sub EXCEPT !.pc = "done", !.log[1].answer = net, !.closed = TRUE]
       IN  form' = [form EXCEPT
                !.isOpen = FALSE,
                !.submit = [answered EXCEPT !.toasts =
                               <<IF net = "err" THEN ToastEventFailed
                                 ELSE IF sub.log[1].fn = "updateEvent" THEN ToastEventUpdated
                                 ELSE ToastEventAdded>>]]
    /\ UNCHANGED <<user, roommates, loading, rows, nextId, calls, inv>>

\* The promise of updateEvent or addEvent settles: onSubmit after its await.
SubmitReply(net) ==
    /\ form.submit.pc = "wait"
    /\ LET sub == form.submit
           answered == [sub EXCEPT !.pc = "done", !.log[1].answer = net]
       IN  IF net = "ok"
           THEN form' = [form EXCEPT
                    !.isOpen = FALSE,
                    !.submit = [answered EXCEPT
                        !.toasts = <<IF sub.log[1].fn = "updateEvent"
                                     THEN ToastEventUpdated ELSE ToastEventAdded>>,
                        !.closed = TRUE]]
           ELSE form' = [form EXCEPT
                    !.submit = [answered EXCEPT !.toasts = <<ToastEventFailed>>]]
    /\ UNCHANGED <<user, roommates, loading, rows, nextId, calls, inv>>

----------------------------------------------------------------------------
(* The balance of a row *)

\* The balances rows take here: the hook writes 0, the expense tracking of
\* the application, which is no part of the hook, writes the other.
Balances == {0, 25}

\* The expense tracking changes the balance of a row.
ExternalBalanceChange(rid) ==
    /\ \E row \in rows : \E b \in Balances :
          /\ row.id = rid
          /\ b # row.balance
          /\ rows' = (rows \ {row}) \cup {[row EXCEPT !.balance = b]}
    /\ UNCHANGED <<user, roommates, loading, nextId, calls, inv, form>>

----------------------------------------------------------------------------
(* Specifications *)

\* A caller invokes an operation, or the user changes to one of `who`, when `may` allows it.
StartBy(who, may) ==
    \/ \E s \in Slots : may /\ FetchRoommates(s)
    \/ \E s \in Slots : may /\ \E u \in who : Login(s, u)
    \/ may /\ Logout
    \/ \E s \in Slots : may /\ \E email \in EmailInputs : AddRoommate(s, email)
    \/ \E s \in Slots : may /\ \E rid \in RoommateIds : DeleteRoommate(s, rid)
    \/ \E s \in Slots : may /\ DeleteAllMyRoommates(s)
    \/ \E s \in Slots : may /\ \E k \in Ids : SendEmailRequest(s, k)

\* A backend call of an invocation in flight comes back.
Reply ==
    \/ \E s \in Slots : \E net \in Net : FetchReply(s, net)
    \/ \E s \in Slots : \E net \in Net : AddProfileReply(s, net)
    \/ \E s \in Slots : \E net \in Net : AddDuplicateReply(s, net)
    \/ \E s \in Slots : \E net \in Net : AddCurrentProfileReply(s, net)
    \/ \E s \in Slots : \E net \in Net : AddInsertReply(s, net)
    \/ \E s \in Slots : \E net \in Net : AddReciprocalReply(s, net)
    \/ \E s \in Slots : \E net \in Net : DeleteReply(s, net)
    \/ \E s \in Slots : \E net \in Net : DeleteAllReply(s, net)
    \/ \E s \in Slots : \E net \in Net : SendReply(s, net)

\* Invocations overlap freely: nothing serialises them.
Next == StartBy(AccountIds, calls < MaxCalls) \/ Reply

Spec == Init /\ [][Next]_vars

\* Invocations do not overlap: one starts only when none is in flight.
SeqNext == StartBy(AccountIds, Quiet /\ calls < MaxSeqCalls) \/ Reply

SeqSpec == Init /\ [][SeqNext]_vars

\* Invocations do not overlap and only the account uA ever logs in.
SeqNextOneUser == StartBy({"uA"}, Quiet /\ calls < MaxSeqCalls) \/ Reply

SeqSpecOneUser == Init /\ [][SeqNextOneUser]_vars

\* Invocations do not overlap, and between them balances change.
SeqNextBalances ==
    \/ StartBy(AccountIds, Quiet /\ calls < MaxSeqCalls)
    \/ Reply
    \/ \E rid \in Ids : Quiet /\ ExternalBalanceChange(rid)

SeqSpecBalances == Init /\ [][SeqNextBalances]_vars

\* The AddEventForm component on its own.
FormNext ==
    \/ \E u \in AccountIds \cup {None} : AuthChange(u)
    \/ \E edit \in Events \cup {NoEvent} : \E selectedDate \in Dates \cup {NoDate} :
          \E now \in Dates : \E west \in BOOLEAN :
              OpenForm(edit, selectedDate, now, west)
    \/ \E name \in NameInputs : \E date \in Dates : \E notes \in NotesInputs :
          \E type \in TypeInputs : EditFields(name, date, notes, type)
    \/ CancelForm
    \/ SubmitForm
    \/ \E net \in Net : SubmitReply(net)

FormSpec == Init /\ [][FormNext]_vars

----------------------------------------------------------------------------
(* Reading an invocation's record *)

\* The answered requests of invocation r that were `q`.
Answers(r, q) == {k \in DOMAIN r.log : r.log[k].req = q}
Asked(r, q) == Answers(r, q) # {}
Succeeded(r, q) == \E k \in Answers(r, q) : r.log[k].ok
FailedAt(r, q) == \E k \in Answers(r, q) : ~r.log[k].ok

\* The requests of r that write to the relation `roommates`.
WriteRequests == {"insert1", "insert2", "delete", "deleteAll"}
Wrote(r) == \E q \in WriteRequests : Asked(r, q)

\* The ids of the rows r created with request q.
Created(r, q) == UNION {r.log[k].ids : k \in Answers(r, q)}

ShowedToast(r, t) == \E k \in DOMAIN r.toasts : r.toasts[k] = t
LastToast(r) == r.toasts[Len(r.toasts)]

\* addRoommate invocations of a logged-in user.
IsAdd(r) == r.op = "add" /\ r.user # None

SameEmail(e1, e2) == ToLowerCase(e1) = ToLowerCase(e2)

----------------------------------------------------------------------------
(* Claims *)

\* C1: an addRoommate of a logged-in user with an email that does not match
\* the regular expression returns at once: it has issued no backend request
\* (so it has written nothing) and has shown exactly the 'Invalid Email'
\* notification.
C1_MalformedEmailRejected ==
    \A s \in Slots :
        (IsAdd(inv[s]) /\ ~EmailRegexTest(inv[s].email))
        => /\ inv[s].pc = "done"
           /\ inv[s].log = <<>>
           /\ inv[s].toasts = <<ToastInvalidEmail>>

\* C1 witness: a malformed email was rejected while the relation held rows.
C1_Witness ==
    \E s \in Slots :
        /\ IsAdd(inv[s]) /\ inv[s].email = e_noDot
        /\ inv[s].toasts = <<ToastInvalidEmail>>
        /\ rows # {}

\* C2: an addRoommate with an email equal to the user's own, compared without
\* regard to case, returns at once: no request, hence no insert of either
\* row, and the self-addition error is shown.
C2_SelfAdditionRejected ==
    \A s \in Slots :
        (IsAdd(inv[s]) /\ SameEmail(inv[s].email, AccountOf(inv[s].user).email))
        => /\ inv[s].pc = "done"
           /\ ~Wrote(inv[s])
           /\ inv[s].log = <<>>
           /\ inv[s].toasts = <<ToastSelf>>

\* C2 witness: the user whose account email is B@x.y asked for b@x.y.
C2_Witness ==
    \E s \in Slots :
        /\ IsAdd(inv[s]) /\ inv[s].user = "uB" /\ inv[s].email = e_b
        /\ inv[s].toasts = <<ToastSelf>>

C4_DuplicateRejected ==
    \A s \in Slots :
        LET r == inv[s]
            own == Created(r, "insert1") \cup Created(r, "insert2")
        IN  ( /\ IsAdd(r)
              /\ r.pc \in {"insert2", "fetch", "done"}
              /\ Succeeded(r, "duplicate")
              /\ \E row \in rows :
                    /\ row.id \notin own
                    /\ row.user_id = r.user
                    /\ SameEmail(row.email, r.email) )
            => /\ ~Wrote(r)
               /\ r.toasts = <<ToastAlreadyAdded>>

\* C5: once the insert of the initiator's row has succeeded there is one
\* such insert and it created one row; the invocation goes on to one
\* reciprocal insert, issues no delete, and returns with the success
\* notification whether the reciprocal insert succeeded or failed.
C5_ReciprocalBestEffort ==
    \A s \in Slots :
        LET r == inv[s]
        IN  (IsAdd(r) /\ Succeeded(r, "insert1"))
            => /\ Cardinality(Answers(r, "insert1")) = 1
               /\ Cardinality(Created(r, "insert1")) = 1
               /\ r.pc \in {"insert2", "fetch", "done"}
               /\ r.pc = "insert2" => ~Asked(r, "insert2")
               /\ r.pc \in {"fetch", "done"} => Cardinality(Answers(r, "insert2")) = 1
               /\ ~Asked(r, "delete") /\ ~Asked(r, "deleteAll")
               /\ r.pc = "done" => LastToast(r) = ToastAddSuccess
               /\ ~ShowedToast(r, ToastAdditionFailed)

\* C5 witness: the reciprocal insert failed, the initiator's row is still in
\* the relation and success was reported.
C5_Witness ==
    \E s \in Slots :
        LET r == inv[s]
        IN  /\ IsAdd(r) /\ r.pc = "done"
            /\ FailedAt(r, "insert2")
            /\ \E row \in rows : row.id \in Created(r, "insert1")
            /\ r.toasts = <<ToastAddSuccess>>

\* C6: the step in which a deleteAllMyRoommates of user U has its delete
\* answered without error removes every row owned by U, and every row owned
\* by another user is still there.
C6_DeleteAllOnlyOwn ==
    [][ \A s \in Slots :
          (inv[s].pc = "deleteAll" /\ inv'[s].pc # "deleteAll" /\ Succeeded(inv'[s], "deleteAll"))
          => /\ \A row \in rows : row.user_id = inv[s].user => row \notin rows'
             /\ \A row \in rows : row.user_id # inv[s].user => row \in rows'
             /\ rows' \subseteq rows ]_vars

\* C6 witness: a deleteAllMyRoommates removed a row while another user
\* holds a row about the caller.
C6_Witness ==
    \E s \in Slots :
        LET r == inv[s]
        IN  /\ r.op = "deleteAll" /\ Succeeded(r, "deleteAll")
            /\ Created(r, "deleteAll") # {}
            /\ \E row \in rows :
                  row.user_id # r.user /\ SameEmail(row.email, AccountOf(r.user).email)

\* C7: when an accepted addRoommate of initiator U for target T has returned,
\* no two invocations having overlapped, the relation holds exactly one row
\* owned by U with T's email and at most one row owned by T with U's email.
C7_OneRowEachWay ==
    \A s \in Slots :
        LET r == inv[s]
        IN  (IsAdd(r) /\ r.pc = "done" /\ Succeeded(r, "insert1"))
            => /\ Cardinality({row \in rows : row.user_id = r.user
                                  /\ row.email = ProfileOf(r.target).email}) = 1
               /\ Cardinality({row \in rows : row.user_id = r.target
                                  /\ row.email = AccountOf(r.user).email}) <= 1

\* C8: nothing serialises overlapping addRoommate invocations: the insert of
\* an invocation that has passed the duplicate read always creates its row,
\* also when another invocation of the same user for the same email has
\* created such a row in the meantime, so that the relation then holds two
\* rows with the same owner and email.
C8_InsertsNotSerialised ==
    [][ \A s \in Slots :
          (inv[s].pc = "insert1" /\ inv'[s].pc = "insert2")
          => LET mine == InitiatorRow(nextId, inv[s].user, inv[s].target)
             IN  /\ mine \notin rows
                 /\ rows' = rows \cup {mine}
                 /\ \A row \in rows :
                       (row.user_id = mine.user_id /\ row.email = mine.email)
                       => Cardinality({x \in rows' : x.user_id = mine.user_id
                                           /\ x.email = mine.email}) >= 2 ]_vars

\* C8 witness: two overlapping invocations of one user for the same email
\* have both passed the duplicate read and both inserted: two rows of the
\* same owner and email.
C8_Witness ==
    \E s \in Slots : \E t \in Slots \ {s} :
        /\ IsAdd(inv[s]) /\ IsAdd(inv[t])
        /\ inv[s].user = inv[t].user
        /\ inv[s].email = inv[t].email
        /\ Succeeded(inv[s], "insert1") /\ Succeeded(inv[t], "insert1")
        /\ \E x \in rows : \E y \in rows :
              /\ x.id \in Created(inv[s], "insert1")
              /\ y.id \in Created(inv[t], "insert1")
              /\ x.id # y.id
              /\ x.user_id = y.user_id
              /\ x.email = y.email

\* A failure of invocation r: one of its requests came back with an error,
\* or its checks turned the request down.
RequestFailed(r) == \E k \in DOMAIN r.log : ~r.log[k].ok
TurnedDown(r) ==
    \/ r.op = "add" /\ ~Succeeded(r, "insert1")
    \/ r.op = "deleteAll" /\ r.log = <<>>
ShowedFailure(r) == \E k \in DOMAIN r.toasts : r.toasts[k].variant = "destructive"

\* The requests whose error the code only writes to the console.
Swallowed == {"current", "insert2"}

\* C9 as stated: every invocation that returns after a failure of any kind
\* has shown a failure notification.
C9_EveryFailureNotified ==
    \A s \in Slots :
        (inv[s].pc = "done" /\ (RequestFailed(inv[s]) \/ TurnedDown(inv[s])))
        => ShowedFailure(inv[s])

\* C9 as amended: every invocation returns, and one that returns after a
\* failure has shown a failure notification, unless the only requests that
\* failed are the read of the current user's own profile and the reciprocal
\* insert: those errors are written to the console and the invocation ends
\* with the success notification.
C9_FailuresNotifiedButSwallowed ==
    \A s \in Slots :
        LET r == inv[s]
        IN  r.pc = "done"
            => /\ TurnedDown(r) => ShowedFailure(r)
               /\ (\E k \in DOMAIN r.log : ~r.log[k].ok /\ r.log[k].req \notin Swallowed)
                     => ShowedFailure(r)
               /\ (r.op = "add" /\ Succeeded(r, "insert1"))
                     => LastToast(r) = ToastAddSuccess

\* C9 witness: an addRoommate whose refetch failed has shown the fetch error
\* and then the success notification.
C9_Witness ==
    \E s \in Slots :
        /\ inv[s].op = "add" /\ inv[s].pc = "done"
        /\ FailedAt(inv[s], "select")
        /\ inv[s].toasts = <<ToastFetchFailed, ToastAddSuccess>>

\* The order of the requests of addRoommate.
AddOrder == <<"profile", "duplicate", "current", "insert1", "insert2", "select">>

\* C10: the requests of one addRoommate are answered in the order profile
\* read, duplicate read, own profile read, initiator insert, reciprocal
\* insert, refetch; the reciprocal insert is asked for only after the
\* initiator insert succeeded; when the initiator insert fails there is no
\* reciprocal insert and no refetch and 'Addition Failed' is reported; so a
\* reciprocal row is never created without the initiator's row.
C10_AddStepsInOrder ==
    \A s \in Slots :
        LET r == inv[s]
        IN  r.op = "add"
            => /\ Len(r.log) <= Len(AddOrder)
               /\ \A k \in DOMAIN r.log : r.log[k].req = AddOrder[k]
               /\ (r.pc = "insert2" \/ Asked(r, "insert2")) => Succeeded(r, "insert1")
               /\ FailedAt(r, "insert1")
                     => /\ r.pc = "done"
                        /\ ~Asked(r, "insert2")
                        /\ ~Asked(r, "select")
                        /\ r.toasts = <<ToastAdditionFailed>>
               /\ Created(r, "insert2") # {} => Created(r, "insert1") # {}

\* C10 witness: the initiator insert failed and the invocation returned.
C10_Witness ==
    \E s \in Slots :
        /\ IsAdd(inv[s]) /\ inv[s].pc = "done"
        /\ FailedAt(inv[s], "insert1")
        /\ Len(inv[s].log) = 4
        /\ inv[s].toasts = <<ToastAdditionFailed>>

\* C11: the two rows a successful addRoommate writes mirror each other: the
\* step of the initiator insert adds one row with the current user's id, the
\* target profile's email and balance 0; the step of the reciprocal insert
\* adds one row with the target profile's id, the current user's email and
\* balance 0; and no step of an addRoommate changes or removes a row that was
\* there, whatever its balance.
C11_RowsMirror ==
    [][ \A s \in Slots :
          (inv[s].op = "add" /\ ~Free(s) /\ inv'[s] # inv[s])
          => LET r == inv[s]
                 created == rows' \ rows
             IN  /\ rows \subseteq rows'
                 /\ (r.pc = "insert1" /\ Succeeded(inv'[s], "insert1"))
                       => created = {[id |-> nextId, user_id |-> r.user,
                                      email |-> ProfileOf(r.target).email, balance |-> 0]}
                 /\ (r.pc = "insert2" /\ Succeeded(inv'[s], "insert2"))
                       => created = {[id |-> nextId, user_id |-> r.target,
                                      email |-> AccountOf(r.user).email, balance |-> 0]}
                 /\ ~(r.pc = "insert1" /\ Succeeded(inv'[s], "insert1"))
                       /\ ~(r.pc = "insert2" /\ Succeeded(inv'[s], "insert2"))
                       => created = {} ]_vars

\* C11 witness: an addRoommate has written both rows while a row with a
\* balance other than 0 was in the relation, and that row is as it was.
C11_Witness ==
    \E s \in Slots :
        LET r == inv[s]
        IN  /\ IsAdd(r) /\ Succeeded(r, "insert1") /\ Succeeded(r, "insert2")
            /\ \E x \in rows : \E y \in rows :
                  /\ x.id \in Created(r, "insert1") /\ y.id \in Created(r, "insert2")
                  /\ x.user_id = r.user /\ y.user_id = r.target
                  /\ x.balance = 0 /\ y.balance = 0
            /\ \E old \in rows :
                  /\ old.id \notin Created(r, "insert1") \cup Created(r, "insert2")
                  /\ old.balance # 0

\* C12: a row is only ever deleted by an operation of the user who owns it:
\* every row a step removes is removed by a deleteRoommate or a
\* deleteAllMyRoommates that was invoked by the row's owner.
C12_OnlyOwnerDeletes ==
    [][ \A row \in rows \ rows' :
          \E s \in Slots :
              /\ inv[s].op \in {"delete", "deleteAll"}
              /\ inv'[s] # inv[s]
              /\ inv[s].user = row.user_id ]_vars

\* The notification of success of the operation of invocation r.
SuccessToast(r) ==
    CASE r.op = "add"       -> ToastAddSuccess
      [] r.op = "delete"    -> ToastRemoved
      [] r.op = "deleteAll" -> ToastAllRemoved

\* The write an add, a delete or a delete-all stands or falls with.
MainWrite(r) ==
    CASE r.op = "add"       -> "insert1"
      [] r.op = "delete"    -> "delete"
      [] r.op = "deleteAll" -> "deleteAll"

\* C13: every deleteRoommate, deleteAllMyRoommates and addRoommate whose
\* write succeeded has read the full list again before it returns, and shows
\* its notification of success in the step in which that read comes back,
\* not before; one whose delete (or initiator insert) failed has issued no
\* read of the list and leaves the roommates list as it was.
C13_RefetchBeforeSuccess ==
    [][ \A s \in Slots :
          (/\ inv'[s] # inv[s]
           /\ inv'[s].pc = "done"
           /\ inv'[s].op \in {"add", "delete", "deleteAll"})
          => LET r == inv'[s]
             IN  /\ Succeeded(r, MainWrite(r))
                    => /\ inv[s].pc = "fetch"
                       /\ r.log[Len(r.log)].req = "select"
                       /\ ~ShowedToast(inv[s], SuccessToast(r))
                       /\ LastToast(r) = SuccessToast(r)
                 /\ FailedAt(r, MainWrite(r))
                    => /\ ~Asked(r, "select")
                       /\ roommates' = roommates ]_vars

\* C14: nothing is tried twice. A sendEmailRequest that is waiting has asked
\* nothing yet and shown nothing; one that has returned has invoked
\* 'send-email' exactly once and shown exactly one notification, 'Request
\* Sent!' if the call returned no error and 'Failed to send email' otherwise.
\* No invocation of any operation has issued the same write, or the same
\* function call, more than once.
C14_NoRetry ==
    \A s \in Slots :
        LET r == inv[s]
        IN  /\ (r.op = "send" /\ r.pc = "send")
                => r.log = <<>> /\ r.toasts = <<>>
            /\ (r.op = "send" /\ r.pc = "done")
                => /\ Len(r.log) = 1 /\ r.log[1].req = "send-email"
                   /\ r.toasts = <<IF r.log[1].ok THEN ToastRequestSent ELSE ToastSendFailed>>
            /\ \A q \in WriteRequests \cup {"send-email"} :
                   Cardinality(Answers(r, q)) <= 1

\* C14 witness: a sendEmailRequest whose call failed has returned, with the
\* one call and the one notification of failure.
C14_Witness ==
    \E s \in Slots :
        /\ inv[s].op = "send" /\ inv[s].pc = "done"
        /\ FailedAt(inv[s], "send-email")
        /\ inv[s].toasts = <<ToastSendFailed>>

\* C16: when the two rows of an addRoommate by account t for the current
\* user are in the relation (t's row holding the current user's profile
\* email, and the reciprocal row of the current user holding t's account
\* email), an addRoommate of the current user for t's account email, in any
\* capitalisation, that has read the duplicates without error writes nothing
\* and reports 'Already Added'.  The rows an invocation did not create itself
\* were there when it read the duplicates, since no other invocation
\* overlaps it.
C16_MutualLinkRejected ==
    \A s \in Slots : \A t \in AccountIds :
        LET r == inv[s]
            own == Created(r, "insert1") \cup Created(r, "insert2")
            before == {row \in rows : row.id \notin own}
        IN  ( /\ IsAdd(r)
              /\ t # r.user
              /\ SameEmail(r.email, AccountOf(t).email)
              /\ r.pc \in {"insert2", "fetch", "done"}
              /\ Succeeded(r, "duplicate")
              /\ \E x \in before :
                    x.user_id = t /\ x.email = ProfileOf(r.user).email
              /\ \E y \in before :
                    y.user_id = r.user /\ y.email = AccountOf(t).email )
            => /\ ~Wrote(r)
               /\ r.toasts = <<ToastAlreadyAdded>>
               /\ Cardinality({y \in rows : y.user_id = r.user
                                   /\ SameEmail(y.email, AccountOf(t).email)}) = 1

\* C17: while nobody is logged in (the effect has run on user = null) the
\* roommates list is empty, also when a read that an operation started
\* before the logout comes back afterwards.
C17_EmptyAfterLogout ==
    user = None => roommates = <<>>

\* C18: with nobody logged in, an addRoommate and a deleteAllMyRoommates
\* have returned at once with no backend request (so with the relation as it
\* was) and with their must-be-logged-in error as the one notification; a
\* fetchRoommates has returned at once with no request and no notification,
\* and the step that called it left loading false.
C18_NoUserNoRequest ==
    [][ \A s \in Slots :
          LET r == inv'[s]
          IN  (/\ r # inv[s]
               /\ r.user = None
               /\ r.op \in {"add", "deleteAll", "fetch"})
              => /\ r.pc = "done"
                 /\ r.log = <<>>
                 /\ r.toasts = CASE r.op = "add"       -> <<ToastAddNoUser>>
                                 [] r.op = "deleteAll" -> <<ToastAllNoUser>>
                                 [] r.op = "fetch"     -> <<>>
                 /\ rows' = rows
                 /\ r.op = "fetch" => loading' = FALSE
                 /\ r.op # "fetch" => loading' = loading ]_vars

\* C18 witness: a deleteAllMyRoommates called with nobody logged in has
\* returned while the relation holds rows.
C18_Witness ==
    \E s \in Slots :
        /\ inv[s].op = "deleteAll" /\ inv[s].user = None /\ inv[s].pc = "done"
        /\ inv[s].toasts = <<ToastAllNoUser>>
        /\ rows # {}

\* Some invocation is waiting for the read of fetchRoommates.
FetchInFlight == \E s \in Slots : inv[s].pc = "fetch"

C15_SubmitCallsOne ==
    [][ LET old == form.submit
            new == form'.submit
        IN  /\ (old.pc # "wait" /\ new # old /\ user = None)
                => /\ new.pc = "done" /\ new.log = <<>> /\ new.toasts = <<>>
                   /\ ~new.closed
                   /\ form'.isOpen = form.isOpen
            /\ (old.pc # "wait" /\ new # old /\ user # None)
                => /\ new.pc = "wait" /\ Len(new.log) = 1 /\ new.toasts = <<>>
                   /\ ~new.closed
                   /\ form'.isOpen = form.isOpen
                   /\ (new.log[1].fn = "updateEvent") <=> (form.eventToEdit # NoEvent)
                   /\ (new.log[1].fn = "addEvent") <=> (form.eventToEdit = NoEvent)
                   /\ form.eventToEdit # NoEvent
                        => /\ new.log[1].arg.id = form.eventToEdit.id
                           /\ "created_by" \notin DOMAIN new.log[1].arg
                   /\ form.eventToEdit = NoEvent
                        => /\ new.log[1].arg.created_by = user
                           /\ "id" \notin DOMAIN new.log[1].arg
            /\ (old.pc = "wait" /\ new # old)
                => /\ new.pc = "done" /\ Len(new.log) = 1
                   /\ new.log[1].fn = old.log[1].fn /\ new.log[1].arg = old.log[1].arg
                   /\ new.log[1].answer = "ok"
                        => /\ new.closed /\ ~form'.isOpen
                           /\ new.toasts = <<IF new.log[1].fn = "updateEvent"
                                             THEN ToastEventUpdated ELSE ToastEventAdded>>
                   /\ new.log[1].answer # "ok"
                        => /\ ~new.closed /\ form'.isOpen = form.isOpen
                           /\ new.toasts = <<ToastEventFailed>> ]_vars

\* C15 witness: an updateEvent for the edit target has failed and the dialog
\* is still open, with the error notification.
C15_Witness ==
    /\ form.submit.pc = "done"
    /\ Len(form.submit.log) = 1
    /\ form.submit.log[1].fn = "updateEvent"
    /\ form.submit.log[1].answer = "err"
    /\ form.eventToEdit # NoEvent
    /\ form.submit.log[1].arg.id = form.eventToEdit.id
    /\ form.submit.toasts = <<ToastEventFailed>>
    /\ form.isOpen

====
